---- MODULE Spec2Model ----
(***************************************************************************)
(* Model of Calculation/bvp2hrv_calculation.py: windowed RMSSD of the      *)
(* inter-beat intervals of BVP recordings, one result column per file,     *)
(* merged into one table.                                                  *)
(*                                                                         *)
(* Number representations.                                                 *)
(*  - A timestamp (a float, epoch seconds) is a record [s, f]: whole       *)
(*    seconds s and the fraction f counted in ticks, TicksPerMicro ticks   *)
(*    to the microsecond, so that inputs finer than a microsecond exist.   *)
(*  - A duration in milliseconds (a float) is held as an integer number    *)
(*    of microseconds, i.e. of thousandths of a millisecond.               *)
(*  - An RMSSD value (a float, milliseconds) is held exactly, as the mean   *)
(*    of squares whose root it is: [sum, n] stands for sqrt(sum / n)       *)
(*    thousandths of a millisecond.  Root and Format2 read a number off.   *)
(*  - Squares of microsecond counts exceed the checker's integers; they    *)
(*    are held as pairs <<hi, lo>> standing for hi * 10^6 + lo.            *)
(***************************************************************************)
EXTENDS Integers, Sequences, FiniteSets, TLC

\* Resolution of the input timestamps: ticks per microsecond (a double near
\* 1.6 * 10^9 s resolves about a quarter of a microsecond).
TicksPerMicro == 4

\* F applied to the values of its arguments: Python evaluates the arguments
\* of a call once, before the call.
Call1(F(_), a) == CHOOSE r \in {F(x) : x \in {a}} : TRUE

Call2(F(_, _), a, b) == CHOOSE r \in {F(x, y) : x \in {a}, y \in {b}} : TRUE

TicksPerSecond == TicksPerMicro * 1000000

(***************************************************************************)
(* datetime.datetime.fromtimestamp / strftime / strptime                   *)
(***************************************************************************)

\* round(): to the nearest integer, ties to the even one; n / d for n >= 0.
RoundHalfEven(n, d) ==
    LET q == n \div d
        r == n % d
    IN  IF 2 * r > d THEN q + 1
        ELSE IF 2 * r = d THEN q + (q % 2)
        ELSE q

\* fromtimestamp(x): the naive local date-time of x, the fraction rounded to
\* the microsecond and carried into the seconds when it rounds up to 10^6.
\* The calendar date is kept as the local day number.
fromtimestamp(x, utcoffset) ==
    LET us0   == RoundHalfEven(x.f, TicksPerMicro)
        carry == IF us0 >= 1000000 THEN 1 ELSE 0
        us    == us0 - carry * 1000000
        local == x.s + carry + utcoffset
        sod   == local % 86400
    IN  [day |-> local \div 86400,
         hour |-> sod \div 3600,
         minute |-> (sod % 3600) \div 60,
         second |-> sod % 60,
         microsecond |-> us]

DigitChars == <<"0", "1", "2", "3", "4", "5", "6", "7", "8", "9">>

\* n written with exactly width decimal digits, zero padded.
RECURSIVE Digits(_, _)
Digits(n, width) ==
    IF width = 0 THEN <<>>
    ELSE Append(Digits(n \div 10, width - 1), DigitChars[(n % 10) + 1])

DigitValue(c) == (CHOOSE k \in 1..10 : DigitChars[k] = c) - 1

\* The number the first k characters of a string of decimal digits denote.
RECURSIVE ParseDigits(_, _)
ParseDigits(str, k) ==
    IF k = 0 THEN 0
    ELSE 10 * ParseDigits(str, k - 1) + DigitValue(str[k])

ParseInt(str) == ParseDigits(str, Len(str))

\* strftime("%Y-%m-%d %H:%M:%S.%f"): the date field holds the day number in
\* five digits, the other fields are as in the format.
strftime(dt) ==
    Digits(dt.day, 5) \o <<" ">> \o Digits(dt.hour, 2) \o <<":">>
        \o Digits(dt.minute, 2) \o <<":">> \o Digits(dt.second, 2) \o <<".">>
        \o Digits(dt.microsecond, 6)

\* strptime(str, "%Y-%m-%d %H:%M:%S.%f")
strptime(str) ==
    [day |-> ParseInt(SubSeq(str, 1, 5)),
     hour |-> ParseInt(SubSeq(str, 7, 8)),
     minute |-> ParseInt(SubSeq(str, 10, 11)),
     second |-> ParseInt(SubSeq(str, 13, 14)),
     microsecond |-> ParseInt(SubSeq(str, 16, 21))]

\* time_transform(t): each timestamp formatted as a local date-time string.
time_transform(t, utcoffset) ==
    [k \in 1..Len(t) |-> Call1(strftime, fromtimestamp(t[k], utcoffset))]

\* (time2 - time1).total_seconds() * 1000, in thousandths of a millisecond.
Duration(time1, time2) ==
    ((time2.day - time1.day) * 86400
        + (time2.hour - time1.hour) * 3600
        + (time2.minute - time1.minute) * 60
        + (time2.second - time1.second)) * 1000000
    + (time2.microsecond - time1.microsecond)

Min(a, b) == IF a <= b THEN a ELSE b

\* time_interval(t1, t2): the durations of the zipped pairs.
time_interval(t1, t2, utcoffset) ==
    LET start_time  == time_transform(t1, utcoffset)
        finish_time == time_transform(t2, utcoffset)
    IN  [k \in 1..Min(Len(t1), Len(t2)) |->
            Call2(Duration, Call1(strptime, start_time[k]),
                            Call1(strptime, finish_time[k]))]

(***************************************************************************)
(* np.diff, np.square, np.mean, np.sqrt                                    *)
(***************************************************************************)

Abs(n) == IF n < 0 THEN -n ELSE n

\* np.diff(a)
Diff(a) == [k \in 1..(Len(a) - 1) |-> a[k + 1] - a[k]]

\* <<hi, lo>> with 0 <= lo < 10^6.
Norm(hi, lo) == <<hi + lo \div 1000000, lo % 1000000>>

\* np.square of one element: d * d as a pair.
Square(d) ==
    LET a == Abs(d) \div 1000
        b == Abs(d) % 1000
        c == 2 * a * b
    IN  Norm(a * a + c \div 1000, (c % 1000) * 1000 + b * b)

BigAdd(x, y) == Norm(x[1] + y[1], x[2] + y[2])

BigScale(x, n) == Norm(x[1] * n, x[2] * n)

BigLeq(x, y) == x[1] < y[1] \/ (x[1] = y[1] /\ x[2] <= y[2])

\* The sum of the squares of the first k elements.
RECURSIVE SumSquaresTo(_, _)
SumSquaresTo(d, k) ==
    IF k = 0 THEN <<0, 0>>
    ELSE BigAdd(SumSquaresTo(d, k - 1), Call1(Square, d[k]))

SumSquares(d) == SumSquaresTo(d, Len(d))

\* np.mean(np.square(np.diff(hr_intervals))) followed by np.sqrt: the value is
\* held exactly, as the fraction sum / n whose square root it is (n = 0 is the
\* NaN that np.mean gives for no differences).
Rmssd(hr_intervals) ==
    LET diff_intervals == Diff(hr_intervals)
        squared_diff   == SumSquares(diff_intervals)
    IN  [sum |-> squared_diff, n |-> Len(diff_intervals)]

NaN == [sum |-> <<0, 0>>, n |-> 0]

IsNull(v) == v.n = 0

\* x / n rounded down, for n > 0.
BigDiv(x, n) == <<x[1] \div n, ((x[1] % n) * 1000000 + x[2]) \div n>>

\* The largest r in lo..hi with r^2 <= total (bisection).
RECURSIVE RootBetween(_, _, _)
RootBetween(lo, hi, total) ==
    IF lo >= hi THEN lo
    ELSE LET Half(mid) == IF BigLeq(Square(mid), total)
                          THEN RootBetween(mid, hi, total)
                          ELSE RootBetween(lo, mid - 1, total)
         IN  Call1(Half, (lo + hi + 1) \div 2)

\* The value of v in thousandths of a millisecond, rounded down (values
\* below 40 s).
Root(v) == RootBetween(0, 40000000, BigDiv(v.sum, v.n))

(***************************************************************************)
(* pandas: DataFrame, concat, to_csv                                       *)
(***************************************************************************)

\* A DataFrame on a RangeIndex: the column labels and, column by column, the
\* cells of rows 0, 1, ... (all columns of one height).
DataFrame(label, values) == [columns |-> <<label>>, data |-> <<values>>]

Max(a, b) == IF a >= b THEN a ELSE b

RECURSIVE Height(_)
Height(frames) ==
    IF frames = <<>> THEN 0
    ELSE Max(Len(Head(frames).data[1]), Height(Tail(frames)))

RECURSIVE AllColumns(_)
AllColumns(frames) ==
    IF frames = <<>> THEN <<>>
    ELSE Head(frames).columns \o AllColumns(Tail(frames))

RECURSIVE AllData(_)
AllData(frames) ==
    IF frames = <<>> THEN <<>>
    ELSE Head(frames).data \o AllData(Tail(frames))

\* A column reindexed to rows 0..height-1: NaN where it has no row.
Reindex(col, height) ==
    [r \in 1..height |-> IF r <= Len(col) THEN col[r] ELSE NaN]

\* The merge with join='inner': only the rows every frame has.
concatInner(frames) ==
    LET data == AllData(frames)
        heights == {Len(data[c]) : c \in 1..Len(data)}
        least == IF heights = {} THEN 0
                 ELSE CHOOSE h \in heights : \A g \in heights : h <= g
    IN  [columns |-> AllColumns(frames),
         data |-> [c \in 1..Len(data) |-> SubSeq(data[c], 1, least)]]

\* pd.concat(frames, axis=1): the frames side by side, in list order, on the
\* union of their row indices.
concat(frames) ==
    LET data == AllData(frames)
    IN  [columns |-> AllColumns(frames),
         data |-> [c \in 1..Len(data) |-> Reindex(data[c], Height(frames))]]

\* n in decimal, without padding.
RECURSIVE Decimal(_)
Decimal(n) ==
    IF n < 10 THEN <<DigitChars[n + 1]>>
    ELSE Append(Decimal(n \div 10), DigitChars[(n % 10) + 1])

\* float_format='%.2f': the value to the nearest hundredth of a millisecond.
Format2(v) ==
    LET Hundredths(c) == Decimal(c \div 100) \o <<".">> \o Digits(c % 100, 2)
    IN  Call1(Hundredths, (Root(v) + 5) \div 10)

\* to_csv(index=False, float_format='%.2f'): the header line and the rows, a
\* NaN cell written as the empty string.
to_csv(df) ==
    [header |-> df.columns,
     rows |-> [r \in 1..(IF df.data = <<>> THEN 0 ELSE Len(df.data[1])) |->
                 [c \in 1..Len(df.data) |->
                     IF IsNull(df.data[c][r]) THEN <<>>
                     ELSE Format2(df.data[c][r])]]]

\* isnull().all().any(): some column holds nothing but NaN.
AnyColumnAllNull(df) ==
    \E c \in 1..Len(df.data) : \A r \in 1..Len(df.data[c]) : IsNull(df.data[c][r])

(***************************************************************************)
(* Paths and the subject table                                             *)
(***************************************************************************)

\* Strings the program takes apart are sequences of characters.
None == <<>>

subject_mapping ==
    << << <<"A", "0", "4", "A", "0", "7">>, <<"0", "1">> >>,
       << <<"A", "0", "4", "2", "A", "E">>, <<"0", "2">> >>,
       << <<"A", "0", "3", "E", "1", "9">>, <<"0", "3">> >> >>

raw_data_path ==
    << <<" ">>, <<"E", "4", "_", "r", "a", "w", "d", "a", "t", "a">> >>

\* A path is the sequence of its components.
dirname(path) == SubSeq(path, 1, Len(path) - 1)

basename(path) == path[Len(path)]

\* code in subject_folder
Contains(code, folder) ==
    \E k \in 1..(Len(folder) - Len(code) + 1) :
        SubSeq(folder, k, k + Len(code) - 1) = code

\* The loop without its break: the last entry from entry k on whose code
\* occurs in the folder name.
RECURSIVE LastMatch(_, _)
LastMatch(k, folder) ==
    IF k > Len(subject_mapping) THEN <<None, None>>
    ELSE LET later == LastMatch(k + 1, folder)
         IN  IF later # <<None, None>> THEN later
             ELSE IF Contains(subject_mapping[k][1], folder)
                  THEN subject_mapping[k]
                  ELSE <<None, None>>

\* for code, name in subject_mapping.items(): the first entry from entry k on
\* whose code occurs in the folder name, or <<None, None>>.
RECURSIVE FirstMatch(_, _)
FirstMatch(k, folder) ==
    IF k > Len(subject_mapping) THEN <<None, None>>
    ELSE IF Contains(subject_mapping[k][1], folder) THEN subject_mapping[k]
    ELSE FirstMatch(k + 1, folder)

\* f"{session}_{subject_name}"
Label(sess, name) == sess \o <<"_">> \o name

(***************************************************************************)
(* The window loop body                                                    *)
(***************************************************************************)

\* part_timestamp[np.where(part_peaks == 1)] of the window starting at
\* index start (0-based): the timestamps of its flagged samples, in order.
RECURSIVE PeakTimestamps(_, _, _, _)
PeakTimestamps(pk, ts, start, size) ==
    IF size = 0 THEN <<>>
    ELSE LET rest == PeakTimestamps(pk, ts, start, size - 1)
         IN  IF pk[start + size] = 1 THEN Append(rest, ts[start + size])
             ELSE rest

\* len(peak_timestamp) < 2
TooFewPeaks(peak_timestamp) == Len(peak_timestamp) < 2

\* The test with 0 for 1: one interval is taken for enough.
AnyInterval(hr_intervals) == Len(hr_intervals) > 0

\* len(hr_intervals) > 1
EnoughIntervals(hr_intervals) == Len(hr_intervals) > 1

\* One pass of the loop body: the list of values after the window.
WindowBody(rmssds, peak_timestamp, offset) ==
    IF TooFewPeaks(peak_timestamp) THEN rmssds
    ELSE LET x0 == SubSeq(peak_timestamp, 1, Len(peak_timestamp) - 1)
             x1 == Tail(peak_timestamp)
             hr_intervals == time_interval(x0, x1, offset)
         IN  IF EnoughIntervals(hr_intervals)
             THEN Append(rmssds, Call1(Rmssd, hr_intervals))
             ELSE rmssds

\* range(0, len(peaks) - window_size, window_size - overlap): whether the
\* loop runs for index start.
InRange(start, n, size) == start < n - size

(***************************************************************************)
(* State                                                                   *)
(***************************************************************************)

VARIABLES
    window_size,     \* samples per window
    overlap,         \* samples shared by consecutive windows
    utcoffset,       \* seconds the machine's local time is ahead of UTC
                     \* (one offset for all timestamps of a run: no change
                     \* of daylight saving time within the recordings)
    bvp_files,       \* what glob found: the recordings, in glob's order
    pc,              \* where the script is
    idx,             \* how many files the for loop has taken
    bvp_file,        \* the file being processed
    session, subject_folder, subject_code, subject_name,
    peaks, full_timestamp, full_rmssd,
    i,               \* the next value the window loop's range gives
    windows,         \* history: the window starts the loop ran for, this file
    rmssd_results,   \* the per-file frames
    origin,          \* history: the index of the file behind each frame
    all_rmssd,       \* the merged table
    saved,           \* what was written to rmssd-320,90%.csv, write by write
    stdout           \* what was printed

vars == <<window_size, overlap, utcoffset, bvp_files, pc, idx, bvp_file,
          session, subject_folder, subject_code, subject_name, peaks,
          full_timestamp, full_rmssd, i, windows, rmssd_results, origin,
          all_rmssd, saved, stdout>>

config == <<window_size, overlap, utcoffset, bvp_files>>

resolved == <<bvp_file, session, subject_folder, subject_code, subject_name>>

signal == <<peaks, full_timestamp, full_rmssd, i, windows>>

outputs == <<rmssd_results, origin, all_rmssd, saved>>

(***************************************************************************)
(* Inputs                                                                  *)
(***************************************************************************)

\* Bounds of the inputs.
MaxFiles == 2
MaxWindow == 4
MaxSamples == 6

\* t plus a number of ticks.
AddTicks(t, ticks) ==
    [s |-> t.s + (t.f + ticks) \div TicksPerSecond,
     f |-> (t.f + ticks) % TicksPerSecond]

\* n samples from start on, one every period ticks; with gap > 0 the sample
\* after the first gap ones was lost, so the later ones come a period late.
Sampled(n, start, period, gap) ==
    [k \in 1..n |->
        AddTicks(start, period * ((k - 1) + (IF gap > 0 /\ k > gap THEN 1 ELSE 0)))]

\* Samples at the given whole-second offsets from start.
SampledAt(start, offsets) ==
    [k \in 1..Len(offsets) |-> [s |-> start.s + offsets[k], f |-> start.f]]

\* A recording: the file's path, its Timestamp column, and Beats, the
\* PPG_Peaks flags the detector derives from its Amplitude column.
Recording(path, ts, beats) == [path |-> path, Timestamp |-> ts, Beats |-> beats]

FileName ==
    <<"x", "_", "B", "V", "P", "_", "a", "d", "d", "t", "i", "m", "e",
      ".", "c", "s", "v">>

PathOf(sess, folder) == raw_data_path \o <<sess, folder, FileName>>

Sessions == {<<"S", "1">>, <<"S", "2">>}

\* Folder names: a code alone; a code inside a longer name; two codes, the
\* later one of the table first; a name that only shares a prefix of a code.
Folders ==
    { <<"A", "0", "4", "A", "0", "7">>,
      <<"x", "A", "0", "4", "2", "A", "E", "y">>,
      <<"A", "0", "3", "E", "1", "9", "A", "0", "4", "A", "0", "7">>,
      <<"A", "0", "4", "A", "0">> }

Starts ==
    { [s |-> 1599955198, f |-> 0],
      [s |-> 1600000000, f |-> TicksPerSecond - 1] }

\* 64 Hz, 1 Hz, 1 Hz a tick slow, and 1 Hz with the fourth sample lost.
Spacings ==
    { [period |-> 15625 * TicksPerMicro, gap |-> 0],
      [period |-> TicksPerSecond, gap |-> 0],
      [period |-> TicksPerSecond + 1, gap |-> 0],
      [period |-> TicksPerSecond, gap |-> 3] }

UtcOffsets == {0, 28800}

\* For the single-file runs: a recording of every length, spacing and beat
\* pattern within the bounds in a folder of subject 01, and one recording in
\* every other folder.
FileRecordings ==
    UNION { { Recording(PathOf(<<"S", "1">>, <<"A", "0", "4", "A", "0", "7">>),
                        Sampled(n, st, sp.period, sp.gap), beats) :
                st \in Starts, sp \in Spacings, beats \in [1..n -> {0, 1}] } :
            n \in 0..MaxSamples }
    \cup { Recording(PathOf(sess, folder),
                     Sampled(MaxSamples, [s |-> 1600000000, f |-> 0],
                             TicksPerSecond, 0),
                     [k \in 1..MaxSamples |-> 1]) :
             sess \in Sessions, folder \in Folders }

\* The signals of the multi-file runs: no rows; no beat; eleven beats whose
\* intervals grow by 0, 1, 2, ... s; eight beats with other intervals.
RunSignals ==
    LET start == [s |-> 1600000000, f |-> 0]
    IN  { [ts |-> <<>>, beats |-> <<>>],
          [ts |-> SampledAt(start, <<0, 1, 2, 4, 8, 15>>),
           beats |-> <<0, 0, 0, 0, 0, 0>>],
          [ts |-> SampledAt(start, <<0, 1, 2, 4, 8, 15, 26, 42, 64, 93, 130>>),
           beats |-> <<1, 1, 1, 1, 1, 1, 1, 1, 1, 1, 1>>],
          [ts |-> SampledAt(start, <<0, 3, 5, 7, 10, 15, 23, 35>>),
           beats |-> <<1, 1, 1, 1, 1, 1, 1, 1>>] }

\* The paths of the multi-file runs: every folder in session S1, and the
\* folder of subject 01 in session S2 as well.
RunPaths ==
    { PathOf(<<"S", "1">>, folder) : folder \in Folders }
    \cup { PathOf(<<"S", "2">>, <<"A", "0", "4", "A", "0", "7">>) }

RunRecordings ==
    { Recording(path, sig.ts, sig.beats) : path \in RunPaths, sig \in RunSignals }

\* The recordings of the runs checked for termination: a folder of subject
\* 01 in two sessions and a folder of no subject, each with no rows, with no
\* beat, or with eight beats.
FairPaths ==
    { PathOf(<<"S", "1">>, <<"A", "0", "4", "A", "0", "7">>),
      PathOf(<<"S", "2">>, <<"A", "0", "4", "A", "0", "7">>),
      PathOf(<<"S", "1">>, <<"A", "0", "4", "A", "0">>) }

FairRecordings ==
    { r \in RunRecordings : r.path \in FairPaths /\ Len(r.Timestamp) <= 8 }

\* glob gives every path once.
DistinctPaths(files) ==
    \A j, k \in 1..Len(files) : j # k => files[j].path # files[k].path

FileLists(recordings, most) ==
    { files \in UNION { [1..n -> recordings] : n \in 0..most } :
        DistinctPaths(files) }

(***************************************************************************)
(* The script                                                              *)
(***************************************************************************)

Start(files) ==
    /\ bvp_files = files
    /\ pc = "for"
    /\ idx = 0
    /\ bvp_file = None
    /\ session = None
    /\ subject_folder = None
    /\ subject_code = None
    /\ subject_name = None
    /\ peaks = <<>>
    /\ full_timestamp = <<>>
    /\ full_rmssd = <<>>
    /\ i = 0
    /\ windows = <<>>
    /\ rmssd_results = <<>>
    /\ origin = <<>>
    /\ all_rmssd = None
    /\ saved = <<>>
    /\ stdout = <<>>

\* A run over up to MaxFiles recordings, the windows of 320 samples
\* overlapping by 288 scaled down to 3 samples overlapping by 2.
Init ==
    /\ window_size = 3
    /\ overlap = 2
    /\ utcoffset = 28800
    /\ \E files \in FileLists(RunRecordings, MaxFiles) : Start(files)

\* The runs checked for termination.
FairInit ==
    /\ window_size = 3
    /\ overlap = 2
    /\ utcoffset = 28800
    /\ \E files \in FileLists(FairRecordings, MaxFiles) : Start(files)

\* A run over one recording, for every window size, overlap, spacing of the
\* samples and beat pattern within the bounds.
InitFile ==
    /\ window_size \in 3..MaxWindow
    /\ overlap \in 0..(window_size - 1)
    /\ utcoffset \in UtcOffsets
    /\ \E f \in FileRecordings : Start(<<f>>)

Say(text, file) == Append(stdout, [text |-> text, file |-> file])

\* The script stopping at the failure instead of going on.
Abort == "aborted"

\* continue: on to the next file.
Continue == "for"

\* Lines 44-54: the for loop takes the next file and resolves its subject.
NextFile ==
    /\ pc = "for"
    /\ idx < Len(bvp_files)
    /\ idx' = idx + 1
    /\ bvp_file' = bvp_files[idx + 1]
    /\ session' = basename(dirname(dirname(bvp_files[idx + 1].path)))
    /\ LET folder == basename(dirname(bvp_files[idx + 1].path))
       IN  /\ subject_folder' = folder
           /\ subject_code' = FirstMatch(1, folder)[1]
           /\ subject_name' = FirstMatch(1, folder)[2]
    /\ pc' = "resolved"
    /\ UNCHANGED <<config, signal, outputs, stdout>>

\* Lines 56-58.
SubjectNotFound ==
    /\ pc = "resolved"
    /\ subject_name = None
    /\ stdout' = Say("Subject not found for file", bvp_file.path)
    /\ pc' = Continue
    /\ UNCHANGED <<config, idx, resolved, signal, outputs>>

\* Lines 61-65.
NoData ==
    /\ pc = "resolved"
    /\ subject_name # None
    /\ bvp_file.Timestamp = <<>>
    /\ stdout' = Say("No BVP data found for the given timestamps in file",
                     bvp_file.path)
    /\ pc' = Continue
    /\ UNCHANGED <<config, idx, resolved, signal, outputs>>

\* The list of the file before kept instead of emptied.
KeepList(old) == old

\* full_rmssd = []
EmptyList(old) == <<>>

\* Lines 61-79: the file is read, its beats detected, the list emptied.
Process ==
    /\ pc = "resolved"
    /\ subject_name # None
    /\ bvp_file.Timestamp # <<>>
    /\ peaks' = bvp_file.Beats
    /\ full_timestamp' = bvp_file.Timestamp
    /\ full_rmssd' = EmptyList(full_rmssd)
    /\ i' = 0
    /\ windows' = <<>>
    /\ pc' = "window"
    /\ UNCHANGED <<config, idx, resolved, outputs, stdout>>

\* Lines 81-97: one window.
Window ==
    /\ pc = "window"
    /\ InRange(i, Len(peaks), window_size)
    /\ \E peak_timestamp \in
              {PeakTimestamps(peaks, full_timestamp, i, window_size)} :
          full_rmssd' = WindowBody(full_rmssd, peak_timestamp, utcoffset)
    /\ windows' = Append(windows, i)
    /\ i' = i + (window_size - overlap)
    /\ UNCHANGED <<config, pc, idx, resolved, peaks, full_timestamp, outputs,
                   stdout>>

\* The test for an empty list left out.
NeverEmpty(rmssds) == FALSE

\* not full_rmssd
NoValues(rmssds) == rmssds = <<>>

\* Lines 99-101, the window loop over.
NoRmssd ==
    /\ pc = "window"
    /\ ~InRange(i, Len(peaks), window_size)
    /\ NoValues(full_rmssd)
    /\ stdout' = Say("No valid RMSSD values computed for file", bvp_file.path)
    /\ pc' = Continue
    /\ UNCHANGED <<config, idx, resolved, signal, outputs>>

\* Lines 103-114, the window loop over.
AppendResult ==
    /\ pc = "window"
    /\ ~InRange(i, Len(peaks), window_size)
    /\ ~NoValues(full_rmssd)
    /\ LET rmssd_df == DataFrame(Label(session, subject_name), full_rmssd)
       IN  /\ rmssd_results' = Append(rmssd_results, rmssd_df)
           /\ stdout' = IF AnyColumnAllNull(rmssd_df)
                        THEN Say("Warning: Empty column detected in",
                                 <<Label(session, subject_name)>>)
                        ELSE stdout
    /\ origin' = Append(origin, idx)
    /\ pc' = "for"
    /\ UNCHANGED <<config, idx, resolved, signal, all_rmssd, saved>>

\* The test for an empty result list left out.
AlwaysResults(results) == TRUE

\* if rmssd_results
HasResults(results) == results # <<>>

\* Lines 117-120.
SaveResults ==
    /\ pc = "for"
    /\ idx = Len(bvp_files)
    /\ HasResults(rmssd_results)
    /\ \E table \in {concat(rmssd_results)} :
          /\ all_rmssd' = table
          /\ saved' = Append(saved, to_csv(table))
    /\ stdout' = Say("RMSSD results saved.", None)
    /\ pc' = "done"
    /\ UNCHANGED <<config, idx, resolved, signal, rmssd_results, origin>>

\* Lines 121-122.
NothingToSave ==
    /\ pc = "for"
    /\ idx = Len(bvp_files)
    /\ ~HasResults(rmssd_results)
    /\ stdout' = Say("No RMSSD results to save.", None)
    /\ pc' = "done"
    /\ UNCHANGED <<config, idx, resolved, signal, outputs>>

Next ==
    \/ NextFile
    \/ SubjectNotFound
    \/ NoData
    \/ Process
    \/ Window
    \/ NoRmssd
    \/ AppendResult
    \/ SaveResults
    \/ NothingToSave

Spec == Init /\ [][Next]_vars

SpecFile == InitFile /\ [][Next]_vars

\* The script runs on until it ends: no step of it waits for anything.
FairSpec == FairInit /\ [][Next]_vars /\ WF_vars(Next)

(***************************************************************************)
(* Properties                                                              *)
(***************************************************************************)

\* The window loop of the current file is over.
LoopOver == pc = "window" /\ ~InRange(i, Len(peaks), window_size)

\* The starts 0, (W-O), 2(W-O), ... of the windows that fit in n samples.
FittingStarts(n) ==
    [k \in 1..(IF n < window_size THEN 0
               ELSE (n - window_size) \div (window_size - overlap) + 1) |->
        (k - 1) * (window_size - overlap)]

\* C1: once the window loop of a file with N samples is over, the windows it
\* ran for are exactly those starting at 0, (W-O), 2(W-O), ... with
\* start + W <= N; a file of exactly N = W samples gives one window.
C1_WindowsCoverFile == LoopOver => windows = FittingStarts(Len(peaks))

\* The flagged samples of the window starting at index start.
PeakCount(start) ==
    Cardinality({k \in (start + 1)..(start + window_size) : peaks[k] = 1})

HasThreePeaks(start) == PeakCount(start) >= 3

\* The windows the loop ran for that hold at least three flagged samples.
Qualifying == SelectSeq(windows, HasThreePeaks)

\* The value the loop body computes for the window starting at start.
WindowValue(start) ==
    LET peak_timestamp == PeakTimestamps(peaks, full_timestamp, start, window_size)
    IN  Rmssd(time_interval(SubSeq(peak_timestamp, 1, Len(peak_timestamp) - 1),
                            Tail(peak_timestamp), utcoffset))

\* C2: the file's list of values holds exactly one value for every processed
\* window with at least 3 flagged peaks and none for the others, in window
\* order; it is never longer than the number of processed windows.
C2_OneValuePerWindow ==
    /\ Len(full_rmssd) = Len(Qualifying)
    /\ Len(full_rmssd) <= Len(windows)
    /\ \A k \in 1..Len(full_rmssd) : full_rmssd[k] = WindowValue(Qualifying[k])

\* C2 witness: several windows processed, some giving a value and some not.
C2_Witness ==
    /\ LoopOver
    /\ Len(windows) >= 2
    /\ Len(full_rmssd) >= 1
    /\ Len(full_rmssd) < Len(windows)
    /\ \E k \in 1..Len(windows) : PeakCount(windows[k]) = 2

\* The samples of the window starting at start that are flagged, as indices.
PeakIndices(start) ==
    {k \in (start + 1)..(start + window_size) : peaks[k] = 1}

\* The k-th smallest element of a set of numbers.
RECURSIVE Nth(_, _)
Nth(set, k) ==
    LET least == CHOOSE x \in set : \A y \in set : x <= y
    IN  IF k = 1 THEN least ELSE Nth(set \ {least}, k - 1)

\* The flagged timestamps of a window, in ascending order.
PeakTimes(start) ==
    [k \in 1..PeakCount(start) |-> full_timestamp[Nth(PeakIndices(start), k)]]

\* t2 - t1 in ticks.
TicksBetween(t1, t2) == (t2.s - t1.s) * TicksPerSecond + (t2.f - t1.f)

\* The intervals 1000 * (t[j+1] - t[j]) of a sequence of timestamps, in
\* ticks, without any rounding.
ExactIntervals(t) == [j \in 1..(Len(t) - 1) |-> TicksBetween(t[j], t[j + 1])]

\* A value of the model against a root mean square counted in ticks.
SameAsTicks(v, w) ==
    /\ v.n = w.n
    /\ BigScale(v.sum, TicksPerMicro * TicksPerMicro) = w.sum

\* C5 as stated: every value is the root mean square of the successive
\* differences of the intervals 1000 * (t[j+1] - t[j]) of its window's peaks.
C5_ExactIntervals ==
    \A k \in 1..Len(full_rmssd) :
        SameAsTicks(full_rmssd[k], Rmssd(ExactIntervals(PeakTimes(Qualifying[k]))))

\* A timestamp to the nearest microsecond, counted from second base.
Micros(t, base) == (t.s - base) * 1000000 + RoundHalfEven(t.f, TicksPerMicro)

\* The intervals between timestamps rounded to the microsecond.
RoundedIntervals(t) ==
    [j \in 1..(Len(t) - 1) |-> Micros(t[j + 1], t[1].s) - Micros(t[j], t[1].s)]

\* The peaks of a window lie at the given whole-second offsets from the first.
PeaksAtOffsets(start, offsets) ==
    /\ PeakCount(start) = Len(offsets)
    /\ \A j \in 1..Len(offsets) :
          TicksBetween(PeakTimes(start)[1], PeakTimes(start)[j])
              = offsets[j] * TicksPerSecond

\* The peaks of a window are exactly one second apart.
PeaksEverySecond(start) ==
    \A j \in 1..(PeakCount(start) - 1) :
        TicksBetween(PeakTimes(start)[j], PeakTimes(start)[j + 1]) = TicksPerSecond

\* What the code computes in place of C5: the root mean square of the
\* successive differences of the intervals between the peak timestamps each
\* rounded to the microsecond first; it is >= 0, peaks one second apart give
\* 0, and peaks at offsets [0, 1, 2, 4] s give mean square 500000 and 707.11,
\* at every epoch second and local UTC offset of the run.
C5_RoundedIntervals ==
    \A k \in 1..Len(full_rmssd) :
        LET v == full_rmssd[k]
            start == Qualifying[k]
        IN  /\ v = Rmssd(RoundedIntervals(PeakTimes(start)))
            /\ BigLeq(<<0, 0>>, v.sum) /\ v.n > 0 /\ Root(v) >= 0
            /\ PeaksEverySecond(start) => v.sum = <<0, 0>> /\ Root(v) = 0
            /\ PeaksAtOffsets(start, <<0, 1, 2, 4>>) =>
                  /\ BigDiv(v.sum, v.n) = <<500000, 0>>
                  /\ Format2(v) = <<"7", "0", "7", ".", "1", "1">>

\* A window with peaks at offsets [0, 1, 2, 4] s gave 707.11.
C5_Example ==
    \E k \in 1..Len(full_rmssd) :
        /\ PeaksAtOffsets(Qualifying[k], <<0, 1, 2, 4>>)
        /\ Format2(full_rmssd[k]) = <<"7", "0", "7", ".", "1", "1">>
        /\ full_timestamp[1].s + utcoffset > 1600000000

\* The files the loop is through with.
Settled == IF pc \in {"for", "done"} THEN idx ELSE idx - 1

SkipTexts ==
    { "Subject not found for file",
      "No BVP data found for the given timestamps in file",
      "No valid RMSSD values computed for file" }

\* File k was skipped: the script said so.
Skipped(k) ==
    \E m \in 1..Len(stdout) :
        stdout[m].text \in SkipTexts /\ stdout[m].file = bvp_files[k].path

\* File k was turned into a column.
Contributed(k) == \E c \in 1..Len(origin) : origin[c] = k

Finished ==
    /\ pc = "done"
    /\ \A k \in 1..Len(bvp_files) : Contributed(k) \/ Skipped(k)

C4_NoEmptyColumn ==
    /\ \A c \in 1..Len(rmssd_results) :
          /\ Len(rmssd_results[c].data[1]) >= 1
          /\ ~IsNull(rmssd_results[c].data[1][1])
    /\ all_rmssd # None =>
          \A c \in 1..Len(all_rmssd.data) : ~IsNull(all_rmssd.data[c][1])
    /\ Len(origin) = Len(rmssd_results)

\* C4 witness: a file whose windows gave no value was dropped, and the
\* table was built from another file.
C4_Witness ==
    /\ pc = "done"
    /\ all_rmssd # None
    /\ \E m \in 1..Len(stdout) :
          stdout[m].text = "No valid RMSSD values computed for file"

\* The subject a folder name resolves to: that of the first table entry
\* whose code occurs in it, <<>> when none does.
SubjectOf(folder) ==
    LET hits == {k \in 1..Len(subject_mapping) :
                    Contains(subject_mapping[k][1], folder)}
    IN  IF hits = {} THEN None
        ELSE subject_mapping[CHOOSE k \in hits : \A h \in hits : k <= h][2]

FolderOf(file) == file.path[Len(file.path) - 1]

SessionOf(file) == file.path[Len(file.path) - 2]

\* The values of a file's windows from index start on, window by window.
RECURSIVE ValuesFrom(_, _)
ValuesFrom(file, start) ==
    IF start + window_size >= Len(file.Beats) THEN <<>>
    ELSE LET Body(peak_timestamp) == WindowBody(<<>>, peak_timestamp, utcoffset)
         IN  Call1(Body, PeakTimestamps(file.Beats, file.Timestamp, start,
                                        window_size))
             \o ValuesFrom(file, start + (window_size - overlap))

\* What a file contributes, from the file alone: no frame, or one frame.
FramesOf(file) ==
    IF SubjectOf(FolderOf(file)) = None THEN <<>>
    ELSE LET Frame(values) ==
                 IF values = <<>> THEN <<>>
                 ELSE <<DataFrame(Label(SessionOf(file), SubjectOf(FolderOf(file))),
                                  values)>>
         IN  Call1(Frame, ValuesFrom(file, 0))

\* The frames of the first k files, in file order.
RECURSIVE FramesOfFirst(_)
FramesOfFirst(k) ==
    IF k = 0 THEN <<>>
    ELSE FramesOfFirst(k - 1) \o FramesOf(bvp_files[k])

\* C9: the frame a file adds is a function of that file alone, whatever was
\* processed before it: whenever the loop is between two files or over, the
\* result list is, in file order, what each file for itself gives, so any
\* order of the same files gives the same columns.
C9_ColumnsDependOnOwnFile ==
    pc \in {"for", "done"} => rmssd_results = FramesOfFirst(idx)

\* C9 witness: a run over two files ended, each having given its own column,
\* the two with different values.
C9_Witness ==
    /\ pc = "done"
    /\ Len(rmssd_results) = 2
    /\ Len(bvp_files) = 2
    /\ rmssd_results[1].data # rmssd_results[2].data

\* C8: no two frames of the result list carry the same column label.
C8_DistinctLabels ==
    \A j, k \in 1..Len(rmssd_results) :
        j # k => rmssd_results[j].columns # rmssd_results[k].columns

\* C10: the subject of the current file is that of the first table entry,
\* in table order, whose code occurs in the parent folder's name; a name
\* with exactly one code gives that subject; a file whose folder holds no
\* code is skipped and gives no column.
C10_FirstMatchingSubject ==
    /\ bvp_file # None =>
          LET folder == FolderOf(bvp_file)
              hits == {k \in 1..Len(subject_mapping) :
                         Contains(subject_mapping[k][1], folder)}
          IN  /\ subject_folder = folder
              /\ hits = {} => subject_name = None /\ subject_code = None
              /\ \A k \in hits :
                    (\A h \in hits : k <= h) =>
                        /\ subject_name = subject_mapping[k][2]
                        /\ subject_code = subject_mapping[k][1]
    /\ \A k \in 1..Settled :
          SubjectOf(FolderOf(bvp_files[k])) = None =>
              Skipped(k) /\ ~Contributed(k)

\* C10 witness: a folder with two codes resolved to the first of the table
\* although the other comes first in the name, after a file without any
\* code had been skipped.
C10_Witness ==
    /\ pc = "window"
    /\ idx = 2
    /\ subject_folder =
          <<"A", "0", "3", "E", "1", "9", "A", "0", "4", "A", "0", "7">>
    /\ subject_name = <<"0", "1">>
    /\ SubjectOf(FolderOf(bvp_files[1])) = None
    /\ Skipped(1)

\* The files that gave a column, in processing order.
Contributors == [c \in 1..Len(origin) |-> bvp_files[origin[c]]]

\* C6: the table has one column per contributing file, labelled for it, in
\* processing order, and as many rows as the longest column; row r of a
\* column is the r-th value of the file's list where it has one and blank
\* (NaN) otherwise.
C6_TableAlignsByRow ==
    all_rmssd # None =>
        /\ Len(all_rmssd.columns) = Len(origin)
        /\ Len(all_rmssd.data) = Len(origin)
        /\ \E rows \in {Len(all_rmssd.data[1])} :
              /\ \A c \in 1..Len(origin) :
                    \E file \in {Contributors[c]}, own \in {rmssd_results[c].data[1]} :
                        /\ all_rmssd.columns[c] =
                              Label(SessionOf(file), SubjectOf(FolderOf(file)))
                        /\ Len(all_rmssd.data[c]) = rows
                        /\ Len(own) <= rows
                        /\ \A r \in 1..rows :
                              all_rmssd.data[c][r] =
                                  IF r <= Len(own) THEN own[r] ELSE NaN
              /\ \E c \in 1..Len(origin) :
                    Len(rmssd_results[c].data[1]) = rows
        /\ \A j, k \in 1..Len(origin) : j < k => origin[j] < origin[k]

\* C6 witness: columns of 5 and 8 values merged into 8 rows, rows 6 to 8 of
\* the shorter one blank, in the table and in the written file.
C6_Witness ==
    /\ all_rmssd # None
    /\ Len(all_rmssd.data) = 2
    /\ Len(rmssd_results[1].data[1]) = 5
    /\ Len(rmssd_results[2].data[1]) = 8
    /\ Len(all_rmssd.data[1]) = 8
    /\ \A r \in 6..8 : IsNull(all_rmssd.data[1][r]) /\ saved[1].rows[r][1] = <<>>
    /\ Len(saved[1].rows) = 8

\* C7: the table is written at most once, only when the loop is through
\* with every file; at the end it has been written exactly when some file
\* gave a column, and otherwise the last thing said is that there is nothing
\* to save.
C7_WrittenOnceAtEnd ==
    /\ Len(saved) <= 1
    /\ saved # <<>> => pc = "done" /\ idx = Len(bvp_files)
    /\ pc = "done" =>
          /\ Settled = Len(bvp_files)
          /\ saved # <<>> <=> (\E k \in 1..Len(bvp_files) : Contributed(k))
          /\ saved # <<>> => saved[1] = to_csv(all_rmssd)
          /\ saved = <<>> =>
                stdout[Len(stdout)].text = "No RMSSD results to save."

\* C7 witness: a run over two files, one skipped and one giving a column,
\* ended with the table written once.
C7_Witness ==
    /\ pc = "done"
    /\ Len(bvp_files) = 2
    /\ Len(saved) = 1
    /\ \E k \in 1..2 : Skipped(k)

====
